---- MODULE Spec2Model ----
(***************************************************************************)
(* Line-to-record parsing core of hsbcparser.                              *)
(*                                                                         *)
(* Text is a sequence of one-character strings.  Offsets returned by the   *)
(* Python code are kept 0-based, exactly as the code computes them; the    *)
(* operators convert to the 1-based positions of TLA+ sequences where they *)
(* index.  A Decimal amount with two fractional digits is the integer      *)
(* number of hundredths.                                                   *)
(***************************************************************************)
EXTENDS Integers, Sequences, FiniteSets, TLC

\* ------------------------------------------------------------------------
\* Characters and the str methods the parser uses
\* ------------------------------------------------------------------------

Digits == <<"0", "1", "2", "3", "4", "5", "6", "7", "8", "9">>

UpperLetters == <<"A", "B", "C", "D", "E", "F", "G", "H", "I", "J", "K", "L", "M",
                  "N", "O", "P", "Q", "R", "S", "T", "U", "V", "W", "X", "Y", "Z">>

LowerLetters == <<"a", "b", "c", "d", "e", "f", "g", "h", "i", "j", "k", "l", "m",
                  "n", "o", "p", "q", "r", "s", "t", "u", "v", "w", "x", "y", "z">>

\* \d
IsDigit(c) == \E i \in 1..10 : Digits[i] = c

\* [A-Za-z]
IsLetter(c) == \E i \in 1..26 : UpperLetters[i] = c \/ LowerLetters[i] = c

\* \w, the class that decides \b
IsWord(c) == IsDigit(c) \/ IsLetter(c) \/ c = "_"

\* \s
IsSpace(c) == c \in {" ", "\t", "\n"}

DigitVal(c) == (CHOOSE i \in 1..10 : Digits[i] = c) - 1

ToUpper(c) ==
    IF \E i \in 1..26 : LowerLetters[i] = c
    THEN UpperLetters[CHOOSE i \in 1..26 : LowerLetters[i] = c]
    ELSE c

ToLower(c) ==
    IF \E i \in 1..26 : UpperLetters[i] = c
    THEN LowerLetters[CHOOSE i \in 1..26 : UpperLetters[i] = c]
    ELSE c

\* str.capitalize()
Capitalize(s) == [i \in 1..Len(s) |-> IF i = 1 THEN ToUpper(s[i]) ELSE ToLower(s[i])]

\* str.lower()
Lower(s) == [i \in 1..Len(s) |-> ToLower(s[i])]

\* str.replace(old, new) for one-character old and new
ReplaceChar(s, old, new) == [i \in 1..Len(s) |-> IF s[i] = old THEN new ELSE s[i]]

\* str.replace(old, "") for a one-character old
DeleteChar(s, old) == SelectSeq(s, LAMBDA c : c # old)

\* s[from:] with a 0-based from
SliceFrom(s, from) == SubSeq(s, from + 1, Len(s))

\* s[:to] with a 0-based, exclusive to
SliceTo(s, to) == SubSeq(s, 1, to)

RECURSIVE LStrip(_)
LStrip(s) == IF s # <<>> /\ IsSpace(Head(s)) THEN LStrip(Tail(s)) ELSE s

RECURSIVE RStrip(_)
RStrip(s) ==
    IF s # <<>> /\ IsSpace(s[Len(s)]) THEN RStrip(SubSeq(s, 1, Len(s) - 1)) ELSE s

\* str.strip()
Strip(s) == LStrip(RStrip(s))

\* str.rstrip(chars)
RECURSIVE RStripChars(_, _)
RStripChars(s, chars) ==
    IF s # <<>> /\ s[Len(s)] \in chars
    THEN RStripChars(SubSeq(s, 1, Len(s) - 1), chars)
    ELSE s

\* str.split(): the whitespace-separated words
RECURSIVE SplitFrom(_, _, _)
SplitFrom(s, i, word) ==
    IF i > Len(s)
    THEN IF word = <<>> THEN <<>> ELSE <<word>>
    ELSE IF IsSpace(s[i])
         THEN IF word = <<>>
              THEN SplitFrom(s, i + 1, <<>>)
              ELSE <<word>> \o SplitFrom(s, i + 1, <<>>)
         ELSE SplitFrom(s, i + 1, Append(word, s[i]))

Split(s) == SplitFrom(s, 1, <<>>)

\* sub occurs in s at the 1-based position p
OccursAt(s, sub, p) ==
    /\ p + Len(sub) - 1 <= Len(s)
    /\ \A k \in 1..Len(sub) : s[p + k - 1] = sub[k]

\* str.find(sub): 0-based index of the first occurrence, -1 when there is none
Find(s, sub) ==
    IF \E p \in 1..(Len(s) + 1) : OccursAt(s, sub, p)
    THEN (CHOOSE p \in 1..(Len(s) + 1) :
              /\ OccursAt(s, sub, p)
              /\ \A q \in 1..(p - 1) : ~OccursAt(s, sub, q)) - 1
    ELSE -1

\* str.startswith(prefix)
StartsWith(s, prefix) == OccursAt(s, prefix, 1)

\* ------------------------------------------------------------------------
\* extract_dates
\* ------------------------------------------------------------------------

\* Python's None for an offset
NoneIx == -1

valid_months == << <<"J", "a", "n">>, <<"F", "e", "b">>, <<"M", "a", "r">>,
                   <<"A", "p", "r">>, <<"M", "a", "y">>, <<"J", "u", "n">>,
                   <<"J", "u", "l">>, <<"A", "u", "g">>, <<"S", "e", "p">>,
                   <<"O", "c", "t">>, <<"N", "o", "v">>, <<"D", "e", "c">> >>

\* text.replace(",", " ").replace('"', "")
text_normalised(text) == DeleteChar(ReplaceChar(text, ",", " "), "\"")

\* One attempt of \b\d{1,2} [A-Za-z]{3} \d{2}\b at the 1-based position i:
\* the position of the last character of the match, 0 when there is none.
\* After the digits the pattern needs a space, so of the greedy choices for
\* \d{1,2} only the whole run of digits can succeed.
DateMatchEnd(t, i) ==
    LET n == Len(t)
        k == IF i + 1 <= n /\ IsDigit(t[i + 1]) THEN 2 ELSE 1
        e == i + k + 6
    IN  IF /\ i <= n
           /\ IsDigit(t[i])
           /\ (i = 1 \/ ~IsWord(t[i - 1]))
           /\ e <= n
           /\ t[i + k] = " "
           /\ IsLetter(t[i + k + 1]) /\ IsLetter(t[i + k + 2]) /\ IsLetter(t[i + k + 3])
           /\ t[i + k + 4] = " "
           /\ IsDigit(t[i + k + 5]) /\ IsDigit(t[i + k + 6])
           /\ (e = n \/ ~IsWord(t[e + 1]))
        THEN e
        ELSE 0

\* re.finditer: leftmost matches, the search resuming after each match;
\* each match is (m.group(), m.start(), m.end() - 1)
RECURSIVE potential_matches(_, _)
potential_matches(t, i) ==
    IF i > Len(t)
    THEN <<>>
    ELSE LET e == DateMatchEnd(t, i)
         IN  IF e > 0
             THEN <<[text |-> SubSeq(t, i, e), start |-> i - 1, end |-> e - 1]>>
                      \o potential_matches(t, e + 1)
             ELSE potential_matches(t, i + 1)

\* txt.split()[1].rstrip(",").capitalize() in valid_months
MonthIsValid(txt) ==
    LET month_part == Capitalize(RStripChars(Split(txt)[2], {","}))
    IN  \E m \in 1..12 : valid_months[m] = month_part

extract_dates(text) ==
    LET valid_matches ==
            SelectSeq(potential_matches(text_normalised(text), 1),
                      LAMBDA m : MonthIsValid(m.text))
    IN  IF valid_matches = <<>>
        THEN [date_strs |-> <<>>, first_ix |-> NoneIx, last_ix |-> NoneIx]
        ELSE [date_strs |-> [k \in 1..Len(valid_matches) |-> valid_matches[k].text],
              first_ix  |-> valid_matches[1].start,
              last_ix   |-> valid_matches[Len(valid_matches)].end]

\* ------------------------------------------------------------------------
\* parse_date: datetime.strptime(date_str, "%d %b %y")
\* ------------------------------------------------------------------------

\* int() of a string of decimal digits
RECURSIVE Number(_)
Number(s) ==
    IF s = <<>> THEN 0 ELSE 10 * Number(SubSeq(s, 1, Len(s) - 1)) + DigitVal(s[Len(s)])

IsLeap(year) == (year % 4 = 0 /\ year % 100 # 0) \/ year % 400 = 0

\* the day checked against 31 whatever the month
DaysInMonth_Always31(year, month) == 31

\* the day count datetime's constructor checks the day against
DaysInMonth(year, month) ==
    IF month = 2
    THEN (IF IsLeap(year) THEN 29 ELSE 28)
    ELSE IF month \in {4, 6, 9, 11} THEN 30 ELSE 31

\* %y: 69..99 are 1969..1999, 00..68 are 2000..2068
FullYear(yy) == IF yy <= 68 THEN 2000 + yy ELSE 1900 + yy

\* %b is matched without regard to case
MonthNumber(word) ==
    IF \E m \in 1..12 : Lower(valid_months[m]) = Lower(word)
    THEN CHOOSE m \in 1..12 : Lower(valid_months[m]) = Lower(word)
    ELSE 0

\* ok = FALSE stands for the ValueError "Unable to parse date"
parse_date(date_str) ==
    LET w     == Split(date_str)
        shape == /\ Len(w) = 3
                 /\ Len(w[1]) \in {1, 2} /\ \A i \in 1..Len(w[1]) : IsDigit(w[1][i])
                 /\ Len(w[3]) = 2 /\ \A i \in 1..2 : IsDigit(w[3][i])
        day   == Number(w[1])
        month == MonthNumber(w[2])
        year  == FullYear(Number(w[3]))
    IN  IF /\ shape
           /\ month # 0
           /\ day \in 1..31
           /\ day <= DaysInMonth(year, month)
        THEN [ok |-> TRUE, year |-> year, month |-> month, day |-> day]
        ELSE [ok |-> FALSE, year |-> 0, month |-> 0, day |-> 0]

\* ------------------------------------------------------------------------
\* parse_transaction_amounts
\* ------------------------------------------------------------------------

\* (?:,\d{3})* from the 1-based position p: the first position after the
\* groups.  What follows the groups must be a dot, so only the greedy choice
\* can succeed.
RECURSIVE GroupsEnd(_, _)
GroupsEnd(t, p) ==
    IF /\ p + 3 <= Len(t)
       /\ t[p] = ","
       /\ IsDigit(t[p + 1]) /\ IsDigit(t[p + 2]) /\ IsDigit(t[p + 3])
    THEN GroupsEnd(t, p + 4)
    ELSE p

\* \d{1,3}(?:,\d{3})*\.\d{2} from the 1-based position j: the position of
\* its last character, 0 when it does not match
NumeralEnd(t, j) ==
    LET n    == Len(t)
        D(p) == p <= n /\ IsDigit(t[p])
        k    == IF D(j) THEN (IF D(j + 1) THEN (IF D(j + 2) THEN 3 ELSE 2) ELSE 1) ELSE 0
        g    == GroupsEnd(t, j + k)
    IN  IF k > 0 /\ g + 2 <= n /\ t[g] = "." /\ IsDigit(t[g + 1]) /\ IsDigit(t[g + 2])
        THEN g + 2
        ELSE 0

\* (CR|DR)? from the 1-based position p: the first position after it
SuffixEnd(t, p) ==
    IF OccursAt(t, <<"C", "R">>, p) \/ OccursAt(t, <<"D", "R">>, p) THEN p + 2 ELSE p

\* an optional single character c at the 1-based position p
OptionalEnd(t, p, c) == IF p <= Len(t) /\ t[p] = c THEN p + 1 ELSE p

\* the scan without its anchor
AtEol_Unanchored(t, p) == TRUE

\* $ under re.MULTILINE: the end of the text or the position of a newline
AtEol(t, p) == p = Len(t) + 1 \/ (p <= Len(t) /\ t[p] = "\n")

\* One attempt of (?:,|\s|\")(\d{1,3}(?:,\d{3})*\.\d{2})(CR|DR)?\"?,?$ at
\* the 1-based position i.  next = 0 when it does not match, otherwise the
\* position after the match.
AnchoredMatchAt(t, i) ==
    LET q  == NumeralEnd(t, i + 1)
        s1 == SuffixEnd(t, q + 1)
        s2 == OptionalEnd(t, s1, "\"")
        s3 == OptionalEnd(t, s2, ",")
    IN  IF /\ i <= Len(t)
           /\ (t[i] = "," \/ IsSpace(t[i]) \/ t[i] = "\"")
           /\ q > 0
           /\ AtEol(t, s3)
        THEN [next |-> s3, at |-> i,
              num_str |-> SubSeq(t, i + 1, q), suffix |-> SubSeq(t, q + 1, s1 - 1)]
        ELSE [next |-> 0, at |-> i, num_str |-> <<>>, suffix |-> <<>>]

\* re.findall of the anchored pattern: leftmost matches, the search resuming
\* after each match
RECURSIVE AnchoredFindAll(_, _)
AnchoredFindAll(t, i) ==
    LET Collect(m) ==
            IF m.next > 0
            THEN <<m>> \o AnchoredFindAll(t, m.next)
            ELSE AnchoredFindAll(t, i + 1)
    IN  IF i > Len(t) THEN <<>> ELSE Collect(AnchoredMatchAt(t, i))

\* Decimal(s) for digits with an optional fraction: coefficient and number
\* of fractional digits
Decimal(s) ==
    LET dot == Find(s, <<".">>)
    IN  IF dot = -1
        THEN [coeff |-> Number(s), places |-> 0]
        ELSE [coeff  |-> Number(SliceTo(s, dot) \o SliceFrom(s, dot + 1)),
              places |-> Len(s) - dot - 1]

RECURSIVE Pow10(_)
Pow10(n) == IF n = 0 THEN 1 ELSE 10 * Pow10(n - 1)

\* .quantize(Decimal("0.01"), rounding=ROUND_HALF_UP), as hundredths
Quantize(d) ==
    IF d.places <= 2
    THEN d.coeff * Pow10(2 - d.places)
    ELSE LET unit == Pow10(d.places - 2)
         IN  (d.coeff \div unit) + (IF 2 * (d.coeff % unit) >= unit THEN 1 ELSE 0)

\* the characters of a sequence as one string
RECURSIVE Str(_)
Str(s) == IF s = <<>> THEN "" ELSE Head(s) \o Str(Tail(s))

\* the suffix taken as it is, without the default
Crdr_NoDefault(suffix) == Str(suffix)

\* crdr = suffix or "Payment"
Crdr(suffix) == IF suffix = <<>> THEN "Payment" ELSE Str(suffix)

\* src/src/hsbcparser/parse.py; raised stands for the ValueError
\* "No amounts with 2 decimal places found in text"
parse_transaction_amounts(text) ==
    LET Results(matches) ==
            [raised  |-> matches = <<>>,
             results |-> [k \in 1..Len(matches) |->
                             [amount |-> Quantize(Decimal(DeleteChar(matches[k].num_str, ","))),
                              crdr   |-> Crdr(matches[k].suffix)]]]
    IN  Results(AnchoredFindAll(text, 1))

\* hsbcparser/edge.py: the same scan, the suffix not captured
edge_parse_transaction_amounts(text) ==
    LET Results(matches) ==
            [raised  |-> matches = <<>>,
             results |-> [k \in 1..Len(matches) |->
                             Quantize(Decimal(DeleteChar(matches[k].num_str, ",")))]]
    IN  Results(AnchoredFindAll(text, 1))

\* One attempt of "?(\d{1,3}(?:,\d{3})*\.\d{2}(?:CR|DR)?)"? at the 1-based
\* position i (src/hsbcparser/parse.py)
LegacyMatchAt(t, i) ==
    LET j  == OptionalEnd(t, i, "\"")
        q  == NumeralEnd(t, j)
        s1 == SuffixEnd(t, q + 1)
        s2 == OptionalEnd(t, s1, "\"")
    IN  IF i <= Len(t) /\ q > 0
        THEN [next |-> s2, group |-> SubSeq(t, j, s1 - 1)]
        ELSE [next |-> 0, group |-> <<>>]

RECURSIVE LegacyFindAll(_, _)
LegacyFindAll(t, i) ==
    LET Collect(m) ==
            IF m.next > 0
            THEN <<m.group>> \o LegacyFindAll(t, m.next)
            ELSE LegacyFindAll(t, i + 1)
    IN  IF i > Len(t) THEN <<>> ELSE Collect(LegacyMatchAt(t, i))

\* src/hsbcparser/parse.py: match.replace(',', '').rstrip('CR').rstrip('DR')
legacy_parse_transaction_amounts(text) ==
    LET Results(matches) ==
            [raised  |-> matches = <<>>,
             results |-> [k \in 1..Len(matches) |->
                             Quantize(Decimal(
                                 RStripChars(RStripChars(DeleteChar(matches[k], ","),
                                                         {"C", "R"}),
                                             {"D", "R"})))]]
    IN  Results(LegacyFindAll(text, 1))

\* ------------------------------------------------------------------------
\* try_transaction
\* ------------------------------------------------------------------------

\* Decimal("100000.00"), in hundredths
Ceiling == 10000000

\* the ceiling itself rejected
ExceedsCeiling_Inclusive(amount) == amount >= 10000000

\* amount > Decimal("100000.00")
ExceedsCeiling(amount) == amount > Ceiling

\* str(n) for a natural number n
RECURSIVE IntDigits(_)
IntDigits(n) ==
    IF n < 10 THEN <<Digits[n + 1]>> ELSE Append(IntDigits(n \div 10), Digits[(n % 10) + 1])

\* the thousands separators of the "," format specifier
RECURSIVE Grouped(_)
Grouped(ds) ==
    IF Len(ds) <= 3
    THEN ds
    ELSE Grouped(SubSeq(ds, 1, Len(ds) - 3)) \o <<",">> \o SubSeq(ds, Len(ds) - 2, Len(ds))

\* f"{amount:,}" for an amount quantized to two places
FormatGrouped(amount) ==
    Grouped(IntDigits(amount \div 100))
        \o <<".", Digits[((amount % 100) \div 10) + 1], Digits[(amount % 10) + 1]>>

\* Python's None in a record field
None == "None"

NullTransaction(line) ==
    [tag |-> "NullTransaction", received |-> None, date |-> None, amount |-> None,
     crdr |-> None, is_contactless |-> None, details |-> line]

\* rdate.date() / ddate.date()
DateOf(d) == <<d.year, d.month, d.day>>

\* (remaining_line[:amount_start] + remaining_line[amount_end:]).replace(",", " ").strip()
Excise(remaining_line, amount_start, amount_end) ==
    Strip(ReplaceChar(SliceTo(remaining_line, amount_start)
                          \o SliceFrom(remaining_line, amount_end), ",", " "))

\* One call of try_transaction, its statements in the order of the code.
\* kind is the record type yielded or the failure raised (the ValueErrors of
\* the code, under the names of the error taxonomy); yielded is the record
\* when one is yielded; the other fields are the locals the call had
\* computed when it ended.
try_transaction(line) ==
    LET Ended(kind, ed, remaining_line, amounts, yielded) ==
            [kind           |-> kind,
             line           |-> line,
             re_dates       |-> ed.date_strs,
             first_ix       |-> ed.first_ix,
             last_ix        |-> ed.last_ix,
             remaining_line |-> remaining_line,
             amounts        |-> amounts,
             yielded        |-> yielded]
        Raised == [tag |-> "raised"]
        Yield(ed, rdate, ddate, remaining_line, amounts, details) ==
            Ended("Transaction", ed, remaining_line, amounts,
                  [tag            |-> "Transaction",
                   received       |-> DateOf(rdate),
                   date           |-> DateOf(ddate),
                   amount         |-> amounts[1].amount,
                   crdr           |-> amounts[1].crdr,
                   is_contactless |-> StartsWith(details, <<")", ")", ")">>),
                   details        |-> details])
        Locate(ed, rdate, ddate, remaining_line, amounts, str_amount, amount_start) ==
            IF amount_start = -1
            THEN Ended("AmountTextNotFound", ed, remaining_line, amounts, Raised)
            ELSE Yield(ed, rdate, ddate, remaining_line, amounts,
                       Excise(remaining_line, amount_start, amount_start + Len(str_amount)))
        Format(ed, rdate, ddate, remaining_line, amounts, str_amount) ==
            Locate(ed, rdate, ddate, remaining_line, amounts, str_amount,
                   Find(remaining_line, str_amount))
        Check(ed, rdate, ddate, remaining_line, found) ==
            IF found.raised
            THEN Ended("NoAmountFound", ed, remaining_line, <<>>, Raised)
            ELSE IF Len(found.results) # 1
            THEN Ended("AmbiguousAmount", ed, remaining_line, found.results, Raised)
            ELSE IF found.results[1].crdr \notin {"CR", "DR", "Payment"}
            THEN Ended("UnrecognisedSuffix", ed, remaining_line, found.results, Raised)
            ELSE IF ExceedsCeiling(found.results[1].amount)
            THEN Ended("AmountOutOfRange", ed, remaining_line, found.results, Raised)
            ELSE Format(ed, rdate, ddate, remaining_line, found.results,
                        FormatGrouped(found.results[1].amount))
        Scan(ed, rdate, ddate, remaining_line) ==
            Check(ed, rdate, ddate, remaining_line,
                  parse_transaction_amounts(remaining_line))
        Dates(ed, rdate, ddate) ==
            IF ~rdate.ok \/ ~ddate.ok
            THEN Ended("DateParseError", ed, <<>>, <<>>, Raised)
            ELSE Scan(ed, rdate, ddate, SliceFrom(line, ed.last_ix + 1))
        Classify(ed) ==
            IF ed.date_strs = <<>>
            THEN Ended("NullTransaction", ed, <<>>, <<>>, NullTransaction(line))
            ELSE IF Len(ed.date_strs) # 2
            THEN Ended("MalformedDateCount", ed, <<>>, <<>>, Raised)
            ELSE IF ed.first_ix # 0
            THEN Ended("UnexpectedDatePlacement", ed, <<>>, <<>>, Raised)
            ELSE Dates(ed, parse_date(ed.date_strs[1]), parse_date(ed.date_strs[2]))
    IN  Classify(extract_dates(line))

\* ------------------------------------------------------------------------
\* Input lines
\* ------------------------------------------------------------------------

\* what may precede the received date
Leads ==
    { <<>>,
      <<"X", " ">>,
      <<"\"">> }

\* date columns as the table extraction emits them, well-formed and not
DateTokens ==
    { <<>>,
      <<"0", "2", " ", "M", "a", "y", " ", "2", "2">>,
      <<"2", "8", " ", "M", "a", "y", ",", "2", "4">>,
      <<"5", " ", "j", "a", "n", " ", "2", "4">>,
      <<"3", "1", " ", "F", "e", "b", " ", "2", "3">>,
      <<"2", "9", " ", "F", "E", "B", " ", "2", "4">>,
      <<"0", "0", " ", "J", "a", "n", " ", "2", "4">>,
      <<"1", "4", " ", "A", "b", "c", " ", "2", "3">>,
      <<"0", "5", " ", "J", "\"", "a", "n", " ", "2", "4">>,
      <<"3", "0", " ", "A", "p", "r", " ", "2", "2", "\"">> }

\* what separates the two date columns
Separators ==
    { <<" ">>,
      <<",">> }

\* description columns
Bodies ==
    { <<>>,
      <<" ", "S", "H", "O", "P">>,
      <<" ", ")", ")", ")", "T", "F", "L">>,
      <<" ", "L", "O", "N", "D", "O", "N", " ", "S", "W", "1", "9">>,
      <<" ", "5", " ", "J", "a", "n", " ", "1", ".", "0", "0", "2", "1">>,
      <<" ", "R", "E", "F", " ", "1", ".", "0", "0", " ", "2", ".", "0", "0">>,
      <<" ", "0", "3", " ", "M", "a", "r", " ", "2", "3", " ", "X">> }

\* what precedes the amount column
Delimiters ==
    { <<",">>,
      <<" ">>,
      <<",", "\"">>,
      <<"x">> }

\* amount numerals
Numerals ==
    { <<>>,
      <<"1", ".", "0", "0">>,
      <<"1", "0", "1", ".", "5", "0">>,
      <<"4", ",", "0", "0", "0", ".", "0", "0">>,
      <<"1", "0", "0", ",", "0", "0", "0", ".", "0", "0">>,
      <<"1", "0", "0", ",", "0", "0", "0", ".", "0", "1">>,
      <<"1", "0", "0", "0", "0", "0", ".", "0", "0">>,
      <<"0", "0", "1", ".", "0", "0">>,
      <<"1", ",", "0", "0", "0", ",", "0", "0", "0", ".", "0", "0">>,
      <<"1", "2", ".", "5">> }

\* what follows the numeral
Suffixes ==
    { <<>>,
      <<"C", "R">>,
      <<"D", "R">>,
      <<"c", "r">> }

\* what ends the line
Closers ==
    { <<>>,
      <<"\"">>,
      <<"\"", ",">>,
      <<",">> }

\* the tails the date columns are varied against
SampleTails ==
    { <<",", ",", "M", "S", " ", "N", "E", "W", "S", "A", "G", "E", "N", "T",
        " ", "L", "O", "N", "D", "I", "S", ",", "L", "O", "N", "D", "O", "N",
        " ", "S", "W", "1", "9", ",", "1", "0", "1", ".", "5", "0">>,
      <<" ", "P", "A", "Y", "M", "E", "N", "T", " ", "-", " ", "T", "H", "A",
        "N", "K", " ", "Y", "O", "U", ",", "\"", "4", ",", "0", "0", "0",
        ".", "0", "0", "C", "R", "\"">>,
      <<" ", "S", "H", "O", "P">> }

\* the date columns the tails are varied against
SampleHeads ==
    { <<"0", "2", " ", "M", "a", "y", " ", "2", "1", " ", "3", "0", " ", "A",
        "p", "r", " ", "2", "1">> }

\* the (text, expected) table of test_parse_transaction_amounts, amounts in
\* hundredths
test_cases ==
    << [text |-> <<"0", "2", " ", "M", "a", "y", " ", "2", "2", " ", "3",
                   "0", " ", "A", "p", "r", " ", "2", "2", ",", ",", "M",
                   "S", " ", "N", "E", "W", "S", "A", "G", "E", "N", "T",
                   " ", "L", "O", "N", "D", "I", "S", ",", "L", "O", "N",
                   "D", "O", "N", " ", "S", "W", "1", "9", ",", "1", "0",
                   "1", ".", "5", "0">>,
        expected |-> <<10150>>],
       [text |-> <<"0", "3", " ", "J", "u", "n", " ", "2", "3", ",", "0",
                   "2", " ", "J", "u", "n", " ", "2", "3", ",", "B", "K",
                   "G", "*", "H", "O", "T", "E", "L", " ", "A", "T", " ",
                   "B", "O", "O", "K", "I", "N", "G", ".", "C", " ", "(",
                   "8", "8", "8", ")", "8", "5", "0", "-", "3", "9", "5",
                   "8", ",", "3", "7", "6", ".", "3", "4">>,
        expected |-> <<37634>>],
       [text |-> <<"1", "9", " ", "D", "e", "c", " ", "2", "3", " ", "1",
                   "8", " ", "D", "e", "c", " ", "2", "3", " ", "I", "A",
                   "P", " ", "t", "r", "a", "i", "n", "l", "i", "n", "e",
                   ",", ",", "+", "4", "4", "3", "3", "3", "2", "0", "2",
                   "2", "2", "2", "2", ",", "1", "2", "7", ".", "2", "9">>,
        expected |-> <<12729>>],
       [text |-> <<"D", "I", "R", "E", "C", "T", " ", "D", "E", "B", "I",
                   "T", " ", "P", "A", "Y", "M", "E", "N", "T", " ", "-",
                   " ", "T", "H", "A", "N", "K", " ", "Y", "O", "U", ",",
                   ",", "7", "3", "0", ".", "0", "0", "C", "R">>,
        expected |-> <<73000>>],
       [text |-> <<"S", "O", "M", "E", " ", "T", "R", "A", "N", "S", "A",
                   "C", "T", "I", "O", "N", " ", "D", "E", "S", "C", "R",
                   "I", "P", "T", "I", "O", "N", ",", ",", "4", "5", "6",
                   ".", "7", "8", "D", "R">>,
        expected |-> <<45678>>],
       [text |-> <<"Q", "U", "O", "T", "E", "D", " ", "T", "R", "A", "N",
                   "S", "A", "C", "T", "I", "O", "N", ",", ",", "1", "2",
                   "3", ".", "4", "5", "\"">>,
        expected |-> <<12345>>],
       [text |-> <<"Q", "U", "O", "T", "E", "D", " ", "C", "R", "E", "D",
                   "I", "T", ",", ",", "6", "7", "8", ".", "9", "0", "C",
                   "R", "\"">>,
        expected |-> <<67890>>],
       [text |-> <<"Q", "U", "O", "T", "E", "D", " ", "D", "E", "B", "I",
                   "T", ",", ",", "2", "3", "4", ".", "5", "6", "D", "R",
                   "\"">>,
        expected |-> <<23456>>],
       [text |-> <<"C", "O", "M", "M", "A", " ", "E", "N", "D", "I", "N",
                   "G", ",", ",", "1", "0", "0", ".", "0", "0", ",">>,
        expected |-> <<10000>>],
       [text |-> <<"Q", "U", "O", "T", "E", "D", " ", "C", "O", "M", "M",
                   "A", ",", ",", "2", "0", "0", ".", "0", "0", "C", "R",
                   "\"", ",">>,
        expected |-> <<20000>>],
       [text |-> <<"2", "8", " ", "M", "a", "y", " ", "2", "4", " ", "2",
                   "8", " ", "M", "a", "y", ",", "2", "4", " ", "P", "A",
                   "Y", "M", "E", "N", "T", " ", "-", " ", "T", "H", "A",
                   "N", "K", " ", "Y", "O", "U", ",", "\"", "4", ",", "0",
                   "0", "0", ".", "0", "0", "C", "R", "\"">>,
        expected |-> <<400000>>] >>

\* the text of test_parse_transaction_amounts_raises_on_no_match
no_amount_text ==
    <<"T", "h", "i", "s", " ", "l", "i", "n", "e", " ", "h", "a", "s", " ",
      "n", "o", " ", "a", "m", "o", "u", "n", "t">>

\* lines of a statement: two transactions, a continuation line, a line with
\* one date, a line without an amount
StatementLines ==
    << <<"0", "2", " ", "M", "a", "y", " ", "2", "2", " ", "3", "0", " ",
         "A", "p", "r", " ", "2", "2", ",", ",", "M", "S", " ", "N", "E",
         "W", "S", "A", "G", "E", "N", "T", " ", "L", "O", "N", "D", "I",
         "S", ",", "L", "O", "N", "D", "O", "N", " ", "S", "W", "1", "9",
         ",", "1", "0", "1", ".", "5", "0">>,
       <<"D", "I", "R", "E", "C", "T", " ", "D", "E", "B", "I", "T", " ",
         "P", "A", "Y", "M", "E", "N", "T", " ", "-", " ", "T", "H", "A",
         "N", "K", " ", "Y", "O", "U", ",", ",", "7", "3", "0", ".", "0",
         "0", "C", "R">>,
       <<"2", "8", " ", "M", "a", "y", " ", "2", "4", " ", "2", "8", " ",
         "M", "a", "y", ",", "2", "4", " ", "P", "A", "Y", "M", "E", "N",
         "T", " ", "-", " ", "T", "H", "A", "N", "K", " ", "Y", "O", "U",
         ",", "\"", "4", ",", "0", "0", "0", ".", "0", "0", "C", "R", "\"">>,
       <<"0", "2", " ", "M", "a", "y", " ", "2", "2", " ", "S", "H", "O",
         "P", ",", "1", ".", "0", "0">>,
       <<"0", "2", " ", "M", "a", "y", " ", "2", "2", " ", "3", "0", " ",
         "A", "p", "r", " ", "2", "2", " ", "S", "H", "O", "P">> >>

\* longest statement, in lines
MaxLines == 3

\* the date columns of a line: lead, received date, separator, transaction date
Heads ==
    { l \o a \o s \o b : l \in Leads, a \in DateTokens, s \in Separators, b \in DateTokens }

\* the rest of a line: description, delimiter, numeral, suffix, closer
Tails ==
    { b \o d \o n \o s \o c :
          b \in Bodies, d \in Delimiters, n \in Numerals, s \in Suffixes, c \in Closers }

\* single lines
Lines ==
    { h \o t : h \in Heads, t \in SampleTails }
        \cup { h \o t : h \in SampleHeads, t \in Tails }
        \cup { test_cases[k].text : k \in 1..Len(test_cases) }
        \cup { no_amount_text }

\* res.splitlines(): a statement of one line, or of up to MaxLines lines
Statements ==
    { <<l>> : l \in Lines }
        \cup UNION { [1..n -> { StatementLines[k] : k \in 1..Len(StatementLines) }] :
                         n \in 2..MaxLines }

\* ------------------------------------------------------------------------
\* yield_credit_infos over the lines of one statement
\* ------------------------------------------------------------------------

VARIABLES
    lines,      \* res.splitlines()
    pos,        \* number of lines the generator has consumed
    emitted,    \* the records yielded so far, as get_credit_infos collects them
    status,     \* "running", "raised" or "done"
    call,       \* the last call of try_transaction on a line
    reparse,    \* try_transaction applied to the details of the last Transaction
    amounts     \* parse_transaction_amounts applied to a whole line, per variant

vars == <<lines, pos, emitted, status, call, reparse, amounts>>

NoCall == [kind |-> "none"]

NoAmounts == [done |-> FALSE]

Init ==
    /\ lines \in Statements
    /\ pos = 0
    /\ emitted = <<>>
    /\ status = "running"
    /\ call = NoCall
    /\ reparse = NoCall
    /\ amounts = NoAmounts

\* a record put before the records already emitted
Emit_Prepend(records, record) == <<record>> \o records

\* a record reaches the consumer of the generator
Emit(records, record) == Append(records, record)

\* one iteration of `for line in res.splitlines(): yield from try_transaction(line)`
NextLine ==
    /\ status = "running"
    /\ pos < Len(lines)
    /\ \E c \in {try_transaction(lines[pos + 1])} :
           /\ call' = c
           /\ IF c.yielded.tag = "raised"
              THEN /\ status' = "raised"
                   /\ UNCHANGED <<pos, emitted>>
              ELSE /\ emitted' = Emit(emitted, c.yielded)
                   /\ pos' = pos + 1
                   /\ status' = "running"
    /\ reparse' = NoCall
    /\ UNCHANGED <<lines, amounts>>

\* the loop ends: get_credit_infos returns the list
Exhausted ==
    /\ status = "running"
    /\ pos = Len(lines)
    /\ status' = "done"
    /\ UNCHANGED <<lines, pos, emitted, call, reparse, amounts>>

\* try_transaction on the details of the Transaction just yielded
Reparse ==
    /\ call.kind = "Transaction"
    /\ reparse.kind = "none"
    /\ reparse' = try_transaction(call.yielded.details)
    /\ UNCHANGED <<lines, pos, emitted, status, call, amounts>>

\* parse_transaction_amounts of each variant on the first line, as the tests
\* call it
ParseAmounts ==
    /\ pos = 0
    /\ status = "running"
    /\ ~amounts.done
    /\ amounts' = [done    |-> TRUE,
                   text    |-> lines[1],
                   current |-> parse_transaction_amounts(lines[1]),
                   edge    |-> edge_parse_transaction_amounts(lines[1]),
                   legacy  |-> legacy_parse_transaction_amounts(lines[1])]
    /\ UNCHANGED <<lines, pos, emitted, status, call, reparse>>

Next == NextLine \/ Exhausted \/ Reparse \/ ParseAmounts

Spec == Init /\ [][Next]_vars

\* ------------------------------------------------------------------------
\* Properties
\* ------------------------------------------------------------------------

\* C1: for every line accepted as a Transaction, details is the text after
\* the second date with the whole amount column removed (numeral, CR/DR
\* suffix, wrapping quote), commas replaced by spaces, trimmed; the quoted
\* 4,000.00CR line of the tests yields exactly PAYMENT - THANK YOU.
C1_DetailsExcisesAmountColumn ==
    call.kind = "Transaction" =>
        LET column == AnchoredFindAll(call.remaining_line, 1)[1].at
        IN  /\ call.yielded.details =
                   Strip(ReplaceChar(SubSeq(call.remaining_line, 1, column - 1), ",", " "))
            /\ call.line = test_cases[11].text =>
                   call.yielded.details =
                       <<"P", "A", "Y", "M", "E", "N", "T", " ", "-", " ",
                         "T", "H", "A", "N", "K", " ", "Y", "O", "U">>

\* C2: try_transaction applied again to the details of a Transaction yields
\* a NullTransaction: it neither raises nor yields a Transaction.
C2_ReparseYieldsNull ==
    reparse.kind # "none" => reparse.kind = "NullTransaction"

\* C3: the offsets extract_dates returns are valid against the original
\* line: the first date stands at first_ix of the line and the last date
\* ends at last_ix of the line, so that line[last_ix + 1:] is the text after
\* the last character of the second date, double quotes in the line or not.
C3_OffsetsValidOnLine ==
    call.kind # "none" =>
        LET shown == ReplaceChar(call.line, ",", " ")
            n     == Len(call.re_dates)
            from  == call.last_ix + 2 - Len(call.re_dates[n])
        IN  n > 0 =>
                /\ OccursAt(shown, call.re_dates[1], call.first_ix + 1)
                /\ from >= 1
                /\ OccursAt(shown, call.re_dates[n], from)

\* C4: a line with no valid-month date substring once its commas and double
\* quotes are treated as spaces yields one NullTransaction whose details is
\* the line verbatim and whose other fields are None; it never raises.
C4_NoDateLineYieldsNull ==
    call.kind # "none" =>
        LET spaced == ReplaceChar(ReplaceChar(call.line, ",", " "), "\"", " ")
            dates  == SelectSeq(potential_matches(spaced, 1),
                                LAMBDA m : MonthIsValid(m.text))
        IN  dates = <<>> =>
                /\ call.kind = "NullTransaction"
                /\ call.yielded.details = call.line
                /\ call.yielded.received = None /\ call.yielded.date = None
                /\ call.yielded.amount = None /\ call.yielded.crdr = None
                /\ call.yielded.is_contactless = None

C6_SanityCeiling ==
    call.kind # "none" =>
        LET ends(tail) ==
                /\ Len(call.remaining_line) >= Len(tail)
                /\ OccursAt(call.remaining_line, tail,
                            Len(call.remaining_line) - Len(tail) + 1)
        IN  /\ Len(call.amounts) = 1 =>
                   IF call.amounts[1].amount <= 10000000
                   THEN /\ call.kind = "Transaction"
                        /\ call.yielded.amount = call.amounts[1].amount
                   ELSE call.kind = "AmountOutOfRange"
            /\ ends(<<" ", "1", "0", "0", ",", "0", "0", "0", ".", "0", "0">>) =>
                   call.kind = "Transaction" /\ call.yielded.amount = 10000000
            /\ ends(<<" ", "1", "0", "0", ",", "0", "0", "0", ".", "0", "1">>) =>
                   call.kind = "AmountOutOfRange"
            /\ ends(<<" ", "1", ",", "0", "0", "0", ",", "0", "0", "0", ".", "0", "0">>) =>
                   call.kind = "AmountOutOfRange"
            /\ call.kind = "Transaction" => call.yielded.amount <= 10000000

\* a Transaction of exactly 100000.00
C6_Witness ==
    call.kind = "Transaction" /\ call.yielded.amount = 10000000

\* C7: every variant of parse_transaction_amounts extracts from each text
\* of the test table exactly the expected trailing amount, and raises on the
\* text without an amount.
C7_AllVariantsExtractTrailingAmount ==
    amounts.done =>
        /\ \A k \in 1..Len(test_cases) :
               amounts.text = test_cases[k].text =>
                   /\ ~amounts.current.raised
                   /\ [j \in 1..Len(amounts.current.results) |->
                          amounts.current.results[j].amount] = test_cases[k].expected
                   /\ ~amounts.edge.raised
                   /\ amounts.edge.results = test_cases[k].expected
                   /\ ~amounts.legacy.raised
                   /\ amounts.legacy.results = test_cases[k].expected
        /\ amounts.text = no_amount_text =>
               amounts.current.raised /\ amounts.edge.raised /\ amounts.legacy.raised

\* C8: the crdr of a Transaction is CR when the amount is suffixed CR, DR
\* when it is suffixed DR and Payment when it has no suffix; the
\* UnrecognisedSuffix failure is never raised.
C8_SuffixMapping ==
    call.kind # "none" =>
        LET dropLast(t, c) ==
                IF t # <<>> /\ t[Len(t)] = c THEN SubSeq(t, 1, Len(t) - 1) ELSE t
            core == dropLast(dropLast(call.remaining_line, ","), "\"")
            endsIn(a, b) ==
                Len(core) >= 2 /\ core[Len(core) - 1] = a /\ core[Len(core)] = b
        IN  /\ call.kind # "UnrecognisedSuffix"
            /\ call.kind = "Transaction" =>
                   call.yielded.crdr = (IF endsIn("C", "R") THEN "CR"
                                        ELSE IF endsIn("D", "R") THEN "DR"
                                        ELSE "Payment")

\* a Transaction whose amount is suffixed DR
C8_Witness ==
    call.kind = "Transaction" /\ call.yielded.crdr = "DR"

\* C9 as stated: try_transaction never fails at the date-parsing step.
C9_DateParseNeverFails ==
    call.kind # "none" => call.kind # "DateParseError"

\* C9 as amended: on a line with exactly two dates starting at offset 0,
\* try_transaction fails with DateParseError exactly when one of the dates
\* names a day that its month and year do not have (00 Jan 24, 31 Feb 23);
\* the month abbreviation, in any letter case, never makes it fail.
C9_DateParseFailsOnlyOnBadDay ==
    call.kind # "none" =>
        LET lengths == <<31, 28, 31, 30, 31, 30, 31, 31, 30, 31, 30, 31>>
            exists(d) ==
                LET w     == Split(d)
                    day   == Number(w[1])
                    month == CHOOSE m \in 1..12 : valid_months[m] = Capitalize(w[2])
                    leap  == month = 2 /\ Number(w[3]) % 4 = 0
                IN  day >= 1 /\ day <= lengths[month] + (IF leap THEN 1 ELSE 0)
        IN  (Len(call.re_dates) = 2 /\ call.first_ix = 0) =>
                (call.kind = "DateParseError"
                     <=> \E k \in 1..2 : ~exists(call.re_dates[k]))

\* a line that fails at the date-parsing step
C9_Witness ==
    call.kind = "DateParseError"

\* C10: records are emitted in line order, one per parsed line; a failure
\* is raised at the position of the failing line, with no record for that
\* line or a later one, and leaves the records already emitted unchanged.
C10_RecordsInLineOrder ==
    /\ [](/\ Len(emitted) = pos
          /\ \A i \in 1..Len(emitted) :
                 \A t \in {try_transaction(lines[i])} :
                     /\ emitted[i].tag \in {"Transaction", "NullTransaction"}
                     /\ emitted[i].tag = t.kind
                     /\ emitted[i].details = t.yielded.details
          /\ status = "done" => pos = Len(lines)
          /\ status = "raised" =>
                 /\ pos < Len(lines)
                 /\ call.line = lines[pos + 1]
                 /\ call.yielded.tag = "raised")
    /\ [][/\ Len(emitted') \in {Len(emitted), Len(emitted) + 1}
          /\ \A i \in 1..Len(emitted) :
                 /\ emitted'[i].tag = emitted[i].tag
                 /\ emitted'[i].details = emitted[i].details
          /\ status = "raised" => (status' = "raised" /\ emitted' = emitted)]_vars

\* a failure raised after records of earlier lines were emitted
C10_Witness ==
    status = "raised" /\ pos >= 1

====
